---- MODULE Spec2Model ----
(***************************************************************************)
(* State-machine model of src/monitor.py: SystemMonitor, its per-target    *)
(* status table, check_target, send_telegram_message, check_all_targets    *)
(* and the run loop.                                                       *)
(***************************************************************************)
EXTENDS Integers, Sequences, FiniteSets, TLC

VARIABLES
    targets,             \* self.targets: the configured target list
    telegram_bot_token,  \* self.telegram_bot_token
    telegram_chat_id,    \* self.telegram_chat_id
    status,              \* self.status: target_id -> last_status, last_check, failures
    pc,                  \* position of run(): startup, idle, pass, stopped, crashed
    idx,                 \* position of the for loop of check_all_targets
    now,                 \* the wall clock read by datetime.now()
    stopReason,          \* history: why run() ended
    lastFault,           \* history: the evaluation that raised out of a pass
    hist,                \* history: the last completed evaluation of each target
    run,                 \* history: failed evaluations since the last successful one
    episode,             \* history: notifications attempted since the run began
    ref                  \* history: the status table had every delivery succeeded

vars == <<targets, telegram_bot_token, telegram_chat_id, status, pc, idx, now,
          stopReason, lastFault, hist, run, episode, ref>>

----------------------------------------------------------------------------
\* Bounds of the model.

\* the clock stops advancing at MaxTime
MaxTime == 1

\* failed evaluations are explored up to MaxOver beyond the target's threshold
MaxOver == 1

----------------------------------------------------------------------------
\* Values of the program.

\* last_check before the first evaluation (Python None)
None == -1

\* target.get("expected_status_code", 200)
DefaultExpectedStatus == 200

\* target.get("failure_threshold", 3)
DefaultFailureThreshold == 3

\* response.status_code == 200 in send_telegram_message
TelegramOk == 200

\* dict.get(key, default)
Get(d, key, default) == IF key \in DOMAIN d THEN d[key] ELSE default

\* the key of self.status used by __init__ and check_all_targets
TargetId(target) == Get(target, "id", Get(target, "url", "unknown"))

\* the key of self.status used by check_target
CheckTargetId(target) == Get(target, "id", Get(target, "url", ""))

ExpectedStatus(target) == Get(target, "expected_status_code", DefaultExpectedStatus)

FailureThreshold(target) == Get(target, "failure_threshold", DefaultFailureThreshold)

\* the entry __init__ creates for each target
InitialStatus == [last_status |-> "unknown", last_check |-> None, failures |-> 0]

\* the configuration load_config returns when the file cannot be read
DefaultConfig ==
    [targets |-> << >>, telegram_bot_token |-> "", telegram_chat_id |-> ""]

\* configurations the monitor is started with: target lists with distinct ids
\* and positive thresholds, with and without chat credentials
Configs ==
    { [targets |-> << [id |-> "a", url |-> "http://a", failure_threshold |-> 1],
                      [url |-> "http://b", failure_threshold |-> 2,
                       expected_status_code |-> 204] >>,
       telegram_bot_token |-> "T", telegram_chat_id |-> "C"],
      [targets |-> << [url |-> "http://b"] >>,
       telegram_bot_token |-> "T", telegram_chat_id |-> "C"],
      [targets |-> << [id |-> "a", url |-> "http://a", failure_threshold |-> 1] >>,
       telegram_bot_token |-> "", telegram_chat_id |-> "C"],
      [targets |-> << [id |-> "a", url |-> "http://a", failure_threshold |-> 1] >>,
       telegram_bot_token |-> "T", telegram_chat_id |-> ""],
      DefaultConfig }

Ids(ts) == { TargetId(ts[i]) : i \in 1..Len(ts) }

\* outcomes of requests.request: a response, a requests.RequestException,
\* or any other exception
ProbeOutcomes ==
    { [kind |-> "reachable", code |-> c] : c \in {200, 204} }
    \cup { [kind |-> "unreachable", code |-> 0], [kind |-> "fault", code |-> 0] }

\* outcomes of requests.post to the chat API: a response or an exception
Deliveries ==
    { [kind |-> "response", code |-> c] : c \in {200, 204, 500} }
    \cup { [kind |-> "error", code |-> 0] }

----------------------------------------------------------------------------
\* The decisions of the code.

\* a bug: any non-error status code is taken as the expected one
IsExpectedAnyOk(status_code, expected_status) == status_code < 400

\* check_target: if status_code == expected_status
IsExpected(status_code, expected_status) == status_code = expected_status

\* a bug: every first success after anything but Up is taken as a recovery
WasDownOrUnknown(last_status) == last_status # "up"

\* check_target: if self.status[target_id]["last_status"] == "down"
WasDown(last_status) == last_status = "down"

\* send_telegram_message: if not self.telegram_bot_token or not self.telegram_chat_id
CredentialsMissing(token, chat_id) == token = "" \/ chat_id = ""

\* a bug: every 2xx answer of the chat API is taken as delivered
TelegramDeliveredAny2xx(status_code) == status_code \in 200..299

\* send_telegram_message: if response.status_code == 200
TelegramDelivered(status_code) == status_code = TelegramOk

\* a bug: the counter is incremented twice per failed evaluation
NextFailuresTwice(failures) == failures + 2

\* check_all_targets: self.status[target_id]["failures"] += 1
NextFailures(failures) == failures + 1

\* a bug: the threshold is taken as reached one failure early
ReachedThresholdEarly(failures, failure_threshold) == failures + 1 >= failure_threshold

\* a bug: the threshold is taken as reached one failure late
ReachedThresholdStrict(failures, failure_threshold) == failures > failure_threshold

\* check_all_targets: if self.status[target_id]["failures"] >= failure_threshold
ReachedThreshold(failures, failure_threshold) == failures >= failure_threshold

\* a bug: the Down notification is not guarded by the last status
NotYetDownUnguarded(last_status) == TRUE

\* check_all_targets: if self.status[target_id]["last_status"] != "down"
NotYetDown(last_status) == last_status # "down"

\* a bug: the operands of the downtime subtraction are swapped
DowntimeSwapped(recovery_time, last_check) == last_check - recovery_time

\* check_target: downtime = (recovery_time - last_check).total_seconds()
Downtime(recovery_time, last_check) == recovery_time - last_check

\* a bug: the time of the check is never stored
SetLastCheckSkipped(st, target_id, current_time) == st

\* check_all_targets: self.status[target_id]["last_check"] = current_time
SetLastCheck(st, target_id, current_time) ==
    [st EXCEPT ![target_id].last_check = current_time]

\* a bug: the POST is not wrapped in try/except, a transport error propagates
SendTelegramMessageUnguarded(token, chat_id, delivery) ==
    IF CredentialsMissing(token, chat_id)
    THEN [ret |-> FALSE, raised |-> FALSE, posted |-> FALSE]
    ELSE IF delivery.kind = "error"
    THEN [ret |-> FALSE, raised |-> TRUE, posted |-> TRUE]
    ELSE IF TelegramDelivered(delivery.code)
    THEN [ret |-> TRUE, raised |-> FALSE, posted |-> TRUE]
    ELSE [ret |-> FALSE, raised |-> FALSE, posted |-> TRUE]

\* send_telegram_message(message): what it returns, whether it raises, and
\* whether the POST was made
SendTelegramMessage(token, chat_id, delivery) ==
    IF CredentialsMissing(token, chat_id)
    THEN [ret |-> FALSE, raised |-> FALSE, posted |-> FALSE]
    ELSE IF delivery.kind = "error"
    THEN [ret |-> FALSE, raised |-> FALSE, posted |-> TRUE]     \* except Exception
    ELSE IF TelegramDelivered(delivery.code)
    THEN [ret |-> TRUE, raised |-> FALSE, posted |-> TRUE]
    ELSE [ret |-> FALSE, raised |-> FALSE, posted |-> TRUE]

\* a bug in the order: last_status and failures are written before the send
EventAfterWrite(kind, entry, sent, delivery, downtime, time) ==
    [kind |-> kind,
     at_send |-> IF kind = "down"
                 THEN [entry EXCEPT !.last_status = "down"]
                 ELSE [entry EXCEPT !.last_status = "up", !.failures = 0],
     ret |-> sent.ret, posted |-> sent.posted,
     delivery |-> delivery, downtime |-> downtime, time |-> time]

\* a notification attempt: its kind, the target's entry of self.status at the
\* moment send_telegram_message is called, and what the call returned
Event(kind, entry, sent, delivery, downtime, time) ==
    [kind |-> kind, at_send |-> entry, ret |-> sent.ret, posted |-> sent.posted,
     delivery |-> delivery, downtime |-> downtime, time |-> time]

\* check_target(target): the status table it leaves, its return value, whether
\* it raised, and the notifications it attempted
CheckTarget(st, target, outcome, token, chat_id, delivery, recovery_time) ==
    LET target_id == CheckTargetId(target)
        expected_status == ExpectedStatus(target)
        raise == [status |-> st, ret |-> FALSE, raised |-> TRUE, events |-> <<>>]
    IN IF outcome.kind = "fault"
       THEN raise                                      \* not a RequestException
       ELSE IF outcome.kind = "unreachable"
       THEN [status |-> st, ret |-> FALSE, raised |-> FALSE, events |-> <<>>]
       ELSE IF ~IsExpected(outcome.code, expected_status)
       THEN [status |-> st, ret |-> FALSE, raised |-> FALSE, events |-> <<>>]
       ELSE IF target_id \notin DOMAIN st
       THEN raise                                      \* KeyError
       ELSE LET up == [st EXCEPT ![target_id].last_status = "up",
                                 ![target_id].failures = 0]
            IN IF ~WasDown(st[target_id].last_status)
               THEN [status |-> up, ret |-> TRUE, raised |-> FALSE, events |-> <<>>]
               ELSE IF st[target_id].last_check = None
               THEN raise                              \* TypeError
               ELSE LET downtime == Downtime(recovery_time, st[target_id].last_check)
                        sent == SendTelegramMessage(token, chat_id, delivery)
                    IN IF sent.raised
                       THEN raise
                       ELSE [status |-> up, ret |-> TRUE, raised |-> FALSE,
                             events |-> << Event("recovery", st[target_id], sent,
                                                 delivery, downtime, recovery_time) >>]

\* one iteration of the for loop of check_all_targets
LoopBody(st, target, outcome, token, chat_id, delivery, current_time, recovery_time) ==
    LET target_id == TargetId(target)
        c == CheckTarget(st, target, outcome, token, chat_id, delivery, recovery_time)
    IN IF c.raised
       THEN [status |-> st, raised |-> TRUE, is_available |-> FALSE, events |-> <<>>]
       ELSE LET s1 == SetLastCheck(c.status, target_id, current_time)
            IN IF c.ret
               THEN [status |-> s1, raised |-> FALSE, is_available |-> TRUE,
                     events |-> c.events]
               ELSE LET s2 == [s1 EXCEPT ![target_id].failures =
                                              NextFailures(s1[target_id].failures)]
                        failure_threshold == FailureThreshold(target)
                    IN IF ReachedThreshold(s2[target_id].failures, failure_threshold)
                          /\ NotYetDown(s2[target_id].last_status)
                       THEN LET sent == SendTelegramMessage(token, chat_id, delivery)
                            IN IF sent.raised
                               THEN [status |-> s2, raised |-> TRUE,
                                     is_available |-> FALSE, events |-> c.events]
                               ELSE [status |-> [s2 EXCEPT ![target_id].last_status = "down"],
                                     raised |-> FALSE, is_available |-> FALSE,
                                     events |-> c.events \o
                                         << Event("down", s2[target_id], sent, delivery,
                                                  0, current_time) >>]
                       ELSE [status |-> s2, raised |-> FALSE, is_available |-> FALSE,
                             events |-> c.events]

----------------------------------------------------------------------------
\* History kept for the properties.

\* a probe outcome is a success when a response arrived with the expected code
Succeeded(target, outcome) ==
    outcome.kind = "reachable"
    /\ outcome.code = Get(target, "expected_status_code", 200)

NoOutcome == [kind |-> "none", code |-> 0]

NoEvaluation ==
    [evaluated |-> FALSE, outcome |-> NoOutcome, succeeded |-> FALSE,
     is_available |-> FALSE, before |-> InitialStatus, runBefore |-> 0,
     events |-> <<>>, time |-> None]

NoFault == [target |-> "", outcome |-> NoOutcome, refRaised |-> FALSE, index |-> 0]

\* a delivery the chat API accepts, with credentials present
OkDelivery == [kind |-> "response", code |-> 200]

Marks(events, at) == [i \in 1..Len(events) |-> [kind |-> events[i].kind, at |-> at]]

----------------------------------------------------------------------------
\* The state machine.

Init ==
    /\ \E config \in Configs :
        /\ targets = config.targets
        /\ telegram_bot_token = config.telegram_bot_token
        /\ telegram_chat_id = config.telegram_chat_id
    /\ status = [id \in Ids(targets) |-> InitialStatus]
    /\ pc = "startup"
    /\ idx = 1
    /\ now = 0
    /\ stopReason = "none"
    /\ lastFault = NoFault
    /\ hist = [id \in Ids(targets) |-> NoEvaluation]
    /\ run = [id \in Ids(targets) |-> 0]
    /\ episode = [id \in Ids(targets) |-> <<>>]
    /\ ref = status

\* one iteration of the for loop of check_all_targets, in the startup pass or
\* in a scheduled pass; an exception it raises leaves run()
EvalTarget ==
    /\ pc \in {"startup", "pass"}
    /\ idx <= Len(targets)
    /\ \E outcome \in ProbeOutcomes, delivery \in Deliveries, dur \in 0..1 :
        LET target == targets[idx]
            id == TargetId(target)
            r == LoopBody(status, target, outcome, telegram_bot_token,
                          telegram_chat_id, delivery, now, now + dur)
            q == LoopBody(ref, target, outcome, "T", "C", OkDelivery, now, now + dur)
        IN /\ now + dur <= MaxTime
           /\ r.status[id].failures <= FailureThreshold(target) + MaxOver
           /\ now' = now + dur
           /\ status' = r.status
           /\ ref' = q.status
           /\ IF r.raised
              THEN /\ pc' = IF pc = "startup" THEN "crashed" ELSE "stopped"
                   /\ stopReason' = "exception"
                   /\ lastFault' = [target |-> id, outcome |-> outcome,
                                    refRaised |-> q.raised, index |-> idx]
                   /\ UNCHANGED <<idx, hist, run, episode>>
              ELSE /\ idx' = idx + 1
                   /\ hist' = [hist EXCEPT ![id] =
                         [evaluated |-> TRUE, outcome |-> outcome,
                          succeeded |-> Succeeded(target, outcome),
                          is_available |-> r.is_available, before |-> status[id],
                          runBefore |-> run[id], events |-> r.events,
                          time |-> now]]
                   /\ run' = [run EXCEPT ![id] =
                         IF Succeeded(target, outcome) THEN 0 ELSE run[id] + 1]
                   /\ episode' = [episode EXCEPT ![id] =
                         (IF hist[id].evaluated /\ hist[id].succeeded
                          THEN <<>> ELSE episode[id])
                         \o Marks(r.events, run[id] + 1)]
                   /\ UNCHANGED <<pc, stopReason, lastFault>>
    /\ UNCHANGED <<targets, telegram_bot_token, telegram_chat_id>>

\* a bug: the job is scheduled and the loop entered while the startup pass runs
EndStartupEarly ==
    /\ pc = "startup"
    /\ pc' = "idle"
    /\ UNCHANGED <<targets, telegram_bot_token, telegram_chat_id, status, idx, now,
                   stopReason, lastFault, hist, run, episode, ref>>

\* run(): the startup pass returned; the job is scheduled and the loop entered
EndStartup ==
    /\ pc = "startup"
    /\ idx > Len(targets)
    /\ pc' = "idle"
    /\ UNCHANGED <<targets, telegram_bot_token, telegram_chat_id, status, idx, now,
                   stopReason, lastFault, hist, run, episode, ref>>

\* schedule.run_pending() finds the job due and calls check_all_targets
RunPending ==
    /\ pc = "idle"
    /\ pc' = "pass"
    /\ idx' = 1
    /\ UNCHANGED <<targets, telegram_bot_token, telegram_chat_id, status, now,
                   stopReason, lastFault, hist, run, episode, ref>>

\* check_all_targets returned to the loop
EndPass ==
    /\ pc = "pass"
    /\ idx > Len(targets)
    /\ pc' = "idle"
    /\ UNCHANGED <<targets, telegram_bot_token, telegram_chat_id, status, idx, now,
                   stopReason, lastFault, hist, run, episode, ref>>

\* time.sleep(1)
Sleep ==
    /\ pc = "idle"
    /\ now < MaxTime
    /\ now' = now + 1
    /\ UNCHANGED <<targets, telegram_bot_token, telegram_chat_id, status, pc, idx,
                   stopReason, lastFault, hist, run, episode, ref>>

\* KeyboardInterrupt: caught inside the loop, uncaught in the startup pass
Interrupt ==
    /\ pc \in {"startup", "idle", "pass"}
    /\ pc' = IF pc = "startup" THEN "crashed" ELSE "stopped"
    /\ stopReason' = "interrupt"
    /\ UNCHANGED <<targets, telegram_bot_token, telegram_chat_id, status, idx, now,
                   lastFault, hist, run, episode, ref>>

Next == EvalTarget \/ EndStartup \/ RunPending \/ EndPass \/ Sleep \/ Interrupt

Spec == Init /\ [][Next]_vars

----------------------------------------------------------------------------
\* The monitor started with two entries that resolve to the same target id.

\* two entries for one URL, neither with an id: both default to the URL, and
\* __init__ leaves one entry of self.status for the two
DupConfigs ==
    { [targets |-> << [url |-> "http://b", failure_threshold |-> 1],
                      [url |-> "http://b", method |-> "POST",
                       expected_status_code |-> 204, failure_threshold |-> 1] >>,
       telegram_bot_token |-> "T", telegram_chat_id |-> "C"] }

InitDup ==
    /\ \E config \in DupConfigs :
        /\ targets = config.targets
        /\ telegram_bot_token = config.telegram_bot_token
        /\ telegram_chat_id = config.telegram_chat_id
    /\ status = [id \in Ids(targets) |-> InitialStatus]
    /\ pc = "startup"
    /\ idx = 1
    /\ now = 0
    /\ stopReason = "none"
    /\ lastFault = NoFault
    /\ hist = [id \in Ids(targets) |-> NoEvaluation]
    /\ run = [id \in Ids(targets) |-> 0]
    /\ episode = [id \in Ids(targets) |-> <<>>]
    /\ ref = status

SpecDup == InitDup /\ [][Next]_vars

----------------------------------------------------------------------------
\* Shape of the state.

TypeOK ==
    /\ pc \in {"startup", "idle", "pass", "stopped", "crashed"}
    /\ idx \in 1..(Len(targets) + 1)
    /\ now \in 0..MaxTime
    /\ stopReason \in {"none", "interrupt", "exception"}
    /\ DOMAIN status = Ids(targets)
    /\ \A id \in Ids(targets) :
        /\ status[id].last_status \in {"unknown", "up", "down"}
        /\ status[id].last_check \in {None} \cup 0..MaxTime
        /\ status[id].failures \in Nat

----------------------------------------------------------------------------
\* Properties.

Targets == 1..Len(targets)

Downs(marks) == SelectSeq(marks, LAMBDA m : m.kind = "down")

Recoveries(events) == SelectSeq(events, LAMBDA e : e.kind = "recovery")

\* the length of the contiguous run of failed evaluations of the episode the
\* target's last evaluation belongs to
RunLength(id) == IF hist[id].succeeded THEN hist[id].runBefore ELSE run[id]

\* C1: per target, a Down notification is attempted exactly once per contiguous
\* run of failed evaluations that reaches failure_threshold, at the evaluation
\* where the run reaches the threshold, and never again while the run goes on;
\* a run that ends in a success after reaching the threshold has attempted
\* exactly Down (at the threshold) and then Recovery (at the success).
C1_DownOncePerRun ==
    \A i \in Targets :
        LET id == TargetId(targets[i])
            th == FailureThreshold(targets[i])
            DownAt == [kind |-> "down", at |-> th]
        IN /\ Downs(episode[id]) = IF RunLength(id) >= th THEN << DownAt >> ELSE << >>
           /\ (hist[id].succeeded /\ RunLength(id) >= th)
                => episode[id] = << DownAt, [kind |-> "recovery", at |-> RunLength(id) + 1] >>

\* C1 witness: threshold 3 and F,F,F,F,S gave Down after the 3rd F, Recovery after S
C1_Witness ==
    \E i \in Targets :
        LET id == TargetId(targets[i])
        IN /\ FailureThreshold(targets[i]) = 3
           /\ hist[id].succeeded
           /\ hist[id].runBefore = 4
           /\ episode[id] = << [kind |-> "down", at |-> 3], [kind |-> "recovery", at |-> 5] >>

\* C2: per target, a successful evaluation attempts exactly one Recovery
\* notification when last_status was Down before it, and none when last_status
\* was Unknown or Up.
C2_RecoveryOnlyFromDown ==
    \A i \in Targets :
        LET h == hist[TargetId(targets[i])]
        IN (h.evaluated /\ h.succeeded) =>
              Len(Recoveries(h.events)) = IF h.before.last_status = "down" THEN 1 ELSE 0

\* C2 witness: a success observed while Down attempted one Recovery
C2_Witness ==
    \E i \in Targets :
        LET h == hist[TargetId(targets[i])]
        IN /\ h.evaluated /\ h.succeeded
           /\ h.before.last_status = "down"
           /\ Len(h.events) = 1
           /\ h.events[1].kind = "recovery"

\* C3: per target, after each completed evaluation failures is the number of
\* failed evaluations since the last successful one (or since startup): one
\* more than before after a failed evaluation, 0 after a successful one.
C3_FailuresCountRun ==
    \A i \in Targets :
        LET id == TargetId(targets[i])
            h == hist[id]
        IN /\ status[id].failures = run[id]
           /\ (h.evaluated /\ h.succeeded) => status[id].failures = 0
           /\ (h.evaluated /\ ~h.succeeded) =>
                 status[id].failures = h.before.failures + 1

\* C3 witness: two failed evaluations in a row counted 2
C3_Witness ==
    \E i \in Targets :
        LET id == TargetId(targets[i])
        IN /\ hist[id].evaluated /\ ~hist[id].succeeded
           /\ hist[id].before.failures = 1
           /\ status[id].failures = 2

\* C4: a failed evaluation that leaves failures below failure_threshold attempts
\* no notification and leaves last_status as it was; failure_threshold - 1
\* failures followed by a success end with failures = 0 and last_status = Up
\* with no notification attempted in between.
C4_BelowThresholdSilent ==
    \A i \in Targets :
        LET id == TargetId(targets[i])
            th == FailureThreshold(targets[i])
            h == hist[id]
        IN /\ (h.evaluated /\ ~h.succeeded /\ status[id].failures < th) =>
                 /\ h.events = << >>
                 /\ status[id].last_status = h.before.last_status
                 /\ status[id].last_status \in {"unknown", "up"}
           /\ (h.evaluated /\ h.succeeded /\ h.runBefore = th - 1) =>
                 /\ status[id].failures = 0
                 /\ status[id].last_status = "up"
                 /\ episode[id] = << >>

\* C4 witness: threshold 3, two failures and then a success, nothing attempted
C4_Witness ==
    \E i \in Targets :
        LET id == TargetId(targets[i])
        IN /\ FailureThreshold(targets[i]) = 3
           /\ hist[id].succeeded
           /\ hist[id].runBefore = 2
           /\ hist[id].before.last_status = "unknown"
           /\ status[id].last_status = "up"
           /\ episode[id] = << >>

\* the changes of last_status the specification allows
AllowedChanges ==
    { <<"unknown", "up">>, <<"unknown", "down">>, <<"up", "down">>, <<"down", "up">> }

\* C5: every change of a target's last_status is one of Unknown->Up,
\* Unknown->Down, Up->Down, Down->Up (so Unknown is never entered again), and
\* every change to Down leaves failures >= failure_threshold.
C5_StatusChanges ==
    [][ \A i \in Targets :
          LET id == TargetId(targets[i])
          IN status'[id].last_status # status[id].last_status =>
                /\ <<status[id].last_status, status'[id].last_status>> \in AllowedChanges
                /\ status'[id].last_status = "down" =>
                      status'[id].failures >= FailureThreshold(targets[i]) ]_vars

\* C5 witness: a target that was Up has been marked Down
C5_Witness ==
    \E i \in Targets :
        LET id == TargetId(targets[i])
        IN /\ hist[id].evaluated
           /\ hist[id].before.last_status = "up"
           /\ status[id].last_status = "down"
           /\ status[id].failures >= FailureThreshold(targets[i])

\* requests.request raised a requests.RequestException
TransportFailure == [kind |-> "unreachable", code |-> 0]

\* the probe outcomes that complete and are not a success for the target
FailedOutcomes(target) ==
    { o \in ProbeOutcomes : o.kind # "fault" /\ ~Succeeded(target, o) }

\* C6: an evaluation is available exactly when a response arrived whose status
\* code is the target's expected_status_code (default 200); in every reachable
\* state a response with another code and a transport failure have the same
\* effect on the status table and on the notifications attempted.
C6_AvailableIffExpected ==
    \A i \in Targets :
        LET id == TargetId(targets[i])
            h == hist[id]
        IN /\ h.evaluated => (h.is_available = h.succeeded)
           /\ \A o \in FailedOutcomes(targets[i]), d \in Deliveries :
                 LoopBody(status, targets[i], o, telegram_bot_token,
                          telegram_chat_id, d, now, now)
                 = LoopBody(status, targets[i], TransportFailure, telegram_bot_token,
                            telegram_chat_id, d, now, now)

\* C6 witness: 204 is expected, a transport failure and then a 200 response
\* reached the threshold of 2 and the target was marked Down
C6_Witness ==
    \E i \in Targets :
        LET id == TargetId(targets[i])
            h == hist[id]
        IN /\ ExpectedStatus(targets[i]) = 204
           /\ h.evaluated
           /\ h.outcome = [kind |-> "reachable", code |-> 200]
           /\ ~h.is_available
           /\ h.before.failures = 1
           /\ Len(h.events) = 1
           /\ h.events[1].kind = "down"
           /\ status[id].last_status = "down"

\* C7: what a delivery does never reaches the status table: the table equals
\* the one the same probe outcomes give when every delivery succeeds, and a
\* pass is left only by an evaluation that raises with a successful delivery too.
C7_DeliveryNeverChangesState ==
    /\ status = ref
    /\ stopReason = "exception" =>
          /\ lastFault.refRaised
          /\ lastFault.outcome.kind = "fault"

\* C7 witness: in the startup pass the first target's Down delivery failed and
\* the second target was evaluated after it
C7_Witness ==
    /\ Len(targets) = 2
    /\ pc = "startup"
    /\ idx = 3
    /\ LET h == hist[TargetId(targets[1])]
       IN /\ Len(h.events) = 1
          /\ h.events[1].kind = "down"
          /\ h.events[1].posted
          /\ ~h.events[1].ret
    /\ hist[TargetId(targets[2])].evaluated
    /\ status[TargetId(targets[1])].last_status = "down"

AllEvents == UNION { { hist[id].events[k] : k \in 1..Len(hist[id].events) } : id \in DOMAIN hist }

\* C8 as stated: the notifier returns true for any 2xx response of the chat
\* API, and false when credentials are missing, the response is not 2xx, or
\* the transport raises.
C8_Any2xxDelivered ==
    \A e \in AllEvents :
        /\ (e.posted /\ e.delivery.kind = "response" /\ e.delivery.code \in 200..299)
              => e.ret
        /\ (~e.posted \/ e.delivery.kind = "error" \/ e.delivery.code \notin 200..299)
              => ~e.ret

\* C8 as amended: the notifier returns true exactly when credentials are
\* present and the chat API answers with status 200; with a missing credential
\* no POST is made; for every other answer, another 2xx included, and for a
\* transport error it returns false, and it never raises.
C8_Only200Delivered ==
    /\ \A e \in AllEvents :
          /\ e.posted = ~(telegram_bot_token = "" \/ telegram_chat_id = "")
          /\ e.ret = (e.posted /\ e.delivery.kind = "response" /\ e.delivery.code = 200)
    /\ \A d \in Deliveries :
          ~SendTelegramMessage(telegram_bot_token, telegram_chat_id, d).raised

\* C8 witness: the chat API answered 204 and the notifier returned false
C8_Witness ==
    \E e \in AllEvents :
        /\ e.posted
        /\ e.delivery = [kind |-> "response", code |-> 204]
        /\ ~e.ret

\* C9 as stated: no error raised while evaluating a target leaves that
\* target's evaluation, so no pass is ever left before its last target.
C9_FaultsNeverPropagate ==
    /\ lastFault = NoFault
    /\ pc \in {"stopped", "crashed"} => stopReason = "interrupt" \/ idx > Len(targets)

\* C10 as stated: run() ends only on an external interrupt; an exception in
\* the startup pass or in a scheduled pass does not end monitoring.
C10_StopsOnlyOnInterrupt ==
    pc \in {"stopped", "crashed"} => stopReason = "interrupt"

\* C11 as stated: the downtime of a Recovery notification is the time of the
\* recovering evaluation (the time it stores as last_check) minus the
\* last_check stored by the target's preceding evaluation.
C11_DowntimeFromEvaluationTime ==
    \A i \in Targets :
        LET id == TargetId(targets[i])
            h == hist[id]
        IN \A k \in 1..Len(h.events) :
              h.events[k].kind = "recovery" =>
                 h.events[k].downtime = status[id].last_check - h.before.last_check

\* C11 as amended: the downtime of a Recovery notification is the recovery
\* timestamp, read after the probe of the recovering evaluation has returned
\* and so never earlier than the time that evaluation stores as last_check,
\* minus the last_check stored by the target's preceding evaluation, for any
\* number of failed evaluations during the outage.
C11_DowntimeFromRecoveryTime ==
    \A i \in Targets :
        LET id == TargetId(targets[i])
            h == hist[id]
        IN \A k \in 1..Len(h.events) :
              h.events[k].kind = "recovery" =>
                 /\ h.before.last_check # None
                 /\ h.events[k].downtime = h.events[k].time - h.before.last_check
                 /\ h.events[k].time >= h.time
                 /\ status[id].last_check = h.time

\* C11 witness: an outage of two failed evaluations, the recovering probe took
\* one tick, and the downtime counts from the evaluation before the recovery
C11_Witness ==
    \E i \in Targets :
        LET id == TargetId(targets[i])
            h == hist[id]
        IN /\ FailureThreshold(targets[i]) = 1
           /\ h.succeeded
           /\ h.runBefore = 2
           /\ Len(h.events) = 1
           /\ h.events[1].kind = "recovery"
           /\ h.before.last_check = 0
           /\ h.time = 0
           /\ h.events[1].time = 1
           /\ h.events[1].downtime = 1

\* C12 as stated: for any two distinct entries of the target list, evaluating
\* one never changes the last_status, last_check or failures the other entry
\* is evaluated against.
C12_NoSharedState ==
    [][ \A i, j \in Targets :
          (i # j /\ pc \in {"startup", "pass"} /\ idx = i /\ idx' = i + 1) =>
             status'[TargetId(targets[j])] = status[TargetId(targets[j])] ]_vars

\* the targets whose entry of self.status or whose last evaluation a step changes
Touched == { id \in DOMAIN status : status'[id] # status[id] \/ hist'[id] # hist[id] }

\* C13: the startup pass has evaluated every target before a scheduled pass
\* begins; every step is part of at most one evaluation, that of the target
\* the single running pass has reached; a scheduled pass begins only from the
\* idle loop, after the pass before it has gone through its last target.
C13_OnePassAtATime ==
    [][ /\ Cardinality(Touched) <= 1
        /\ Touched # {} =>
              /\ pc \in {"startup", "pass"}
              /\ idx <= Len(targets)
              /\ Touched = { TargetId(targets[idx]) }
        /\ (pc' = "pass" /\ pc # "pass") =>
              /\ pc = "idle"
              /\ idx > Len(targets)
              /\ idx' = 1
              /\ \A i \in Targets : hist[TargetId(targets[i])].evaluated
        /\ (pc' = "idle" /\ pc # "idle") =>
              /\ pc \in {"startup", "pass"}
              /\ idx > Len(targets) ]_vars

\* C13 witness: a scheduled pass is at its second target, after the startup
\* pass evaluated both targets
C13_Witness ==
    /\ Len(targets) = 2
    /\ pc = "pass"
    /\ idx = 2
    /\ \A i \in Targets : hist[TargetId(targets[i])].evaluated

\* C14 as stated: at the moment a Down or Recovery delivery is attempted the
\* target's new last_status and failures are already written.
C14_StateCommittedBeforeSend ==
    \A i \in Targets :
        LET id == TargetId(targets[i])
            h == hist[id]
        IN \A k \in 1..Len(h.events) :
              /\ h.events[k].at_send.last_status = status[id].last_status
              /\ h.events[k].at_send.failures = status[id].failures

\* C14 as amended: the delivery is attempted before last_status is written.
\* At a Down attempt failures is already incremented and last_check already
\* stored, and last_status still holds its previous value; at a Recovery
\* attempt the entry is as the preceding evaluation left it (last_status Down,
\* failures not reset). The new last_status (and for Recovery failures = 0) is
\* written after the attempt, whatever it returned.
C14_SendBeforeStatusWrite ==
    \A i \in Targets :
        LET id == TargetId(targets[i])
            h == hist[id]
        IN \A k \in 1..Len(h.events) :
              LET e == h.events[k]
              IN /\ e.kind = "down" =>
                      /\ e.at_send.last_status = h.before.last_status
                      /\ e.at_send.last_status # "down"
                      /\ e.at_send.failures = h.before.failures + 1
                      /\ e.at_send.last_check = h.time
                      /\ status[id] = [e.at_send EXCEPT !.last_status = "down"]
                 /\ e.kind = "recovery" =>
                      /\ e.at_send = h.before
                      /\ e.at_send.last_status = "down"
                      /\ status[id] = [last_status |-> "up", last_check |-> h.time,
                                       failures |-> 0]

\* C14 witness: a Down delivery failed while the entry still said Up, and the
\* entry says Down afterwards
C14_Witness ==
    \E i \in Targets :
        LET id == TargetId(targets[i])
            h == hist[id]
        IN /\ Len(h.events) = 1
           /\ h.events[1].kind = "down"
           /\ h.events[1].at_send.last_status = "up"
           /\ ~h.events[1].ret
           /\ status[id].last_status = "down"

\* C15: every completed evaluation of a target, successful or failed, with or
\* without a notification, stores the time of that evaluation as last_check;
\* last_check is absent exactly for a target no evaluation has completed for.
C15_LastCheckIsEvaluationTime ==
    \A i \in Targets :
        LET id == TargetId(targets[i])
            h == hist[id]
        IN /\ h.evaluated =>
                 /\ status[id].last_check = h.time
                 /\ status[id].last_check \in 0..now
           /\ (status[id].last_check = None) <=> ~h.evaluated

\* C15 witness: a failed evaluation below the threshold, with no notification,
\* stored its time
C15_Witness ==
    \E i \in Targets :
        LET id == TargetId(targets[i])
            h == hist[id]
        IN /\ h.evaluated /\ ~h.succeeded
           /\ h.events = << >>
           /\ status[id].last_status = "unknown"
           /\ h.before.last_check = 0
           /\ h.time = 1
           /\ status[id].last_check = 1

\* C16: between evaluations, a target with failure_threshold >= 1 has
\* last_status = Down exactly when failures >= failure_threshold.
C16_DownIffAtThreshold ==
    \A i \in Targets :
        LET id == TargetId(targets[i])
        IN FailureThreshold(targets[i]) >= 1 =>
              ((status[id].last_status = "down")
                  <=> (status[id].failures >= FailureThreshold(targets[i])))

\* C16 witness: a target that was Up reached its threshold of 2 and is Down
C16_Witness ==
    \E i \in Targets :
        LET id == TargetId(targets[i])
        IN /\ FailureThreshold(targets[i]) = 2
           /\ hist[id].before.last_status = "up"
           /\ hist[id].before.failures = 1
           /\ status[id].failures = 2
           /\ status[id].last_status = "down"

Kinds(marks) == [k \in 1..Len(marks) |-> marks[k].kind]

\* C17: per target the notifications attempted alternate Down, Recovery,
\* starting with Down: those attempted since the last success before the
\* current run are nothing or Down while the run is open, and nothing or Down
\* then Recovery once a success has closed it; a Down without its Recovery is
\* outstanding exactly while last_status is Down, so the next run starts anew.
C17_NotificationsAlternate ==
    \A i \in Targets :
        LET id == TargetId(targets[i])
            h == hist[id]
        IN /\ Kinds(episode[id]) \in
                 (IF h.evaluated /\ h.succeeded
                  THEN { << >>, <<"down", "recovery">> }
                  ELSE { << >>, <<"down">> })
           /\ (status[id].last_status = "down") <=> (Kinds(episode[id]) = <<"down">>)
           /\ Len(h.events) <= 1

\* C17 witness: threshold 2, a Down at the 2nd failure and a Recovery at the
\* success after a 3rd
C17_Witness ==
    \E i \in Targets :
        LET id == TargetId(targets[i])
        IN /\ episode[id] = << [kind |-> "down", at |-> 2], [kind |-> "recovery", at |-> 4] >>
           /\ status[id].last_status = "up"

\* C18: whenever last_status is Down, last_check is present, so the downtime
\* subtraction of a recovery has both operands and never raises.
C18_DownHasLastCheck ==
    /\ \A i \in Targets :
          LET id == TargetId(targets[i])
              h == hist[id]
          IN /\ status[id].last_status = "down" => status[id].last_check # None
             /\ h.before.last_status = "down" => h.before.last_check # None
    /\ stopReason = "exception" => lastFault.outcome.kind = "fault"

\* C18 witness: a recovery subtracted the last_check of a Down target
C18_Witness ==
    \E i \in Targets :
        LET id == TargetId(targets[i])
            h == hist[id]
        IN /\ h.before.last_status = "down"
           /\ h.before.last_check = 1
           /\ Len(h.events) = 1
           /\ h.events[1].kind = "recovery"
           /\ h.events[1].downtime = 0
           /\ stopReason = "none"

\* the kinds of the notifications of an evaluation whose delivery failed
LostKinds(h) == { h.events[k].kind : k \in { n \in 1..Len(h.events) : ~h.events[n].ret } }

\* what holds after an evaluation whose delivery failed, and in the rest of the run
NoRetryState ==
    \A i \in Targets :
        LET id == TargetId(targets[i])
            h == hist[id]
        IN /\ "down" \in LostKinds(h) => status[id].last_status = "down"
           /\ "recovery" \in LostKinds(h) =>
                 status[id].last_status = "up" /\ status[id].failures = 0
           /\ (h.evaluated /\ ~h.succeeded /\ h.before.last_status = "down") =>
                 h.events = << >> /\ status[id].last_status = "down"
           /\ (h.evaluated /\ h.succeeded /\ h.before.last_status = "up") =>
                 h.events = << >> /\ status[id].last_status = "up"

\* C19: a notification whose delivery failed is never retried: after a failed
\* Down delivery the target is marked Down and its next evaluation, like every
\* failed evaluation while Down, attempts no Down; after a failed Recovery
\* delivery the target is marked Up and its next evaluation, like every
\* successful evaluation while Up, attempts no Recovery.
C19_FailedDeliveryNeverRetried ==
    /\ []NoRetryState
    /\ [][ \A i \in Targets :
             LET id == TargetId(targets[i])
             IN (pc \in {"startup", "pass"} /\ idx = i /\ idx' = i + 1) =>
                   \A k \in 1..Len(hist'[id].events) :
                      hist'[id].events[k].kind \notin LostKinds(hist[id]) ]_vars

\* C19 witness: without a bot token the Down delivery failed, the target is
\* Down, and the next failed evaluation attempted nothing
C19_Witness ==
    \E i \in Targets :
        LET id == TargetId(targets[i])
            h == hist[id]
        IN /\ telegram_bot_token = ""
           /\ episode[id] = << [kind |-> "down", at |-> 1] >>
           /\ run[id] = 2
           /\ h.evaluated /\ ~h.succeeded
           /\ h.before.last_status = "down"
           /\ h.events = << >>
           /\ status[id].last_status = "down"

====
